---------------------------- MODULE Spec2Model ----------------------------
(***************************************************************************)
(* Model of the battle-log analysis engine, backend/api/analysis.py.       *)
(*                                                                         *)
(* A Python dict is a function with a domain of strings, read with Get     *)
(* (dict.get with a default).  An insertion-ordered dict (Counter,         *)
(* defaultdict) is a sequence of records in insertion order.  Opponent     *)
(* names and tags are strings; card names and timestamps, whose characters *)
(* the code inspects, are sequences of one-character strings.  A float     *)
(* rounded to one decimal is the integer number of tenths.                 *)
(***************************************************************************)
EXTENDS Integers, Sequences, FiniteSets, TLC

VARIABLES
    player_data,      \* the profile handed to analyze_player
    battle_log,       \* the match list handed to analyze_player
    pc,               \* position inside analyze_player
    i,                \* index of the next battle of the running scan
    max_streak,       \* get_longest_win_streak locals
    current_streak,
    comeback_wins,    \* get_comeback_king_percentage locals
    total_wins,
    nemesis_data,     \* analyze_player locals
    nemesis_message,
    insights          \* the dict analyze_player returns, key by key

vars == <<player_data, battle_log, pc, i, max_streak, current_streak,
          comeback_wins, total_wins, nemesis_data, nemesis_message, insights>>

-----------------------------------------------------------------------------
(* Python primitives *)

EmptyDict == << >>

Get(d, k, default) == IF k \in DOMAIN d THEN d[k] ELSE default

Max(a, b) == IF a >= b THEN a ELSE b

Min(a, b) == IF a <= b THEN a ELSE b

\* seqs[lo] \o ... \o seqs[hi]: what nested for-loops over seqs visit, in order
RECURSIVE Chain(_, _, _)
Chain(seqs, lo, hi) ==
    IF lo > hi THEN << >>
    ELSE IF lo = hi THEN seqs[lo]
    ELSE Chain(seqs, lo, (lo + hi) \div 2) \o Chain(seqs, (lo + hi) \div 2 + 1, hi)

Flat(seqs) == Chain(seqs, 1, Len(seqs))

\* the body of each loop over the visits of a battle log, defined below
RECURSIVE Body(_, _, _)

\* acc after "for item in items: acc = Body(acc, item)" of the named loop. The
\* items are taken in order; a range of them is run as its first half and then,
\* from the value the first half left, its second half
ForEach(loop, start, items) ==
    LET RECURSIVE Run(_, _, _)
        Run(acc, lo, hi) ==
            IF lo > hi THEN acc
            ELSE IF lo = hi THEN Body(loop, acc, items[lo])
            ELSE CHOOSE done \in {Run(half, (lo + hi) \div 2 + 1, hi) :
                                     half \in {Run(acc, lo, (lo + hi) \div 2)}} : TRUE
    IN  Run(start, 1, Len(items))

Abs(a) == IF a < 0 THEN -a ELSE a

\* s[:n]
Prefix(s, n) == SubSeq(s, 1, Min(n, Len(s)))

\* s[-n:]
Suffix(s, n) == SubSeq(s, Max(1, Len(s) - n + 1), Len(s))

\* round(num / den * 100, 1) in tenths, for num >= 0 and den > 0: the nearest
\* tenth, an exact half going to the even tenth
RoundPercent(num, den) ==
    LET q == (1000 * num) \div den
        r == (1000 * num) % den
    IN  IF 2 * r > den THEN q + 1
        ELSE IF 2 * r < den THEN q
        ELSE IF q % 2 = 0 THEN q ELSE q + 1

-----------------------------------------------------------------------------
(* Outcome of one battle: the crown sums of the two sides *)

RECURSIVE SumCrowns(_)
SumCrowns(side) ==
    IF side = << >> THEN 0
    ELSE Get(Head(side), "crowns", 0) + SumCrowns(Tail(side))

Team(battle) == Get(battle, "team", << >>)

Opponent(battle) == Get(battle, "opponent", << >>)

TeamCrowns(battle) == SumCrowns(Team(battle))

OpponentCrowns(battle) == SumCrowns(Opponent(battle))

PlayerWon(battle) == TeamCrowns(battle) > OpponentCrowns(battle)

PlayerLost(battle) == OpponentCrowns(battle) > TeamCrowns(battle)

-----------------------------------------------------------------------------
(* get_nemesis *)

NemesisSentinel == [name |-> "N/A", tag |-> "N/A", wins |-> 0, losses |-> 0, total |-> 0]

\* index of the entry of an ordered dict whose field f is key, 0 when absent
RECURSIVE IndexOf(_, _, _, _)
IndexOf(dict, f, key, k) ==
    IF k > Len(dict) THEN 0
    ELSE IF dict[k][f] = key THEN k
    ELSE IndexOf(dict, f, key, k + 1)

\* body of the loop over one battle's opponents
TrackOpponent(stats, opp, battle) ==
    LET opp_name == Get(opp, "name", "Unknown")
        opp_tag  == Get(opp, "tag", "")
        found    == IndexOf(stats, "tag", opp_tag, 1)
        fresh    == [name |-> "", tag |-> "", wins |-> 0, losses |-> 0, total |-> 0]
        base     == IF found = 0 THEN Append(stats, fresh) ELSE stats
        k        == IF found = 0 THEN Len(base) ELSE found
        old      == base[k]
    IN  IF opp_tag = "" THEN stats
        ELSE [base EXCEPT ![k] =
                [name   |-> opp_name,
                 tag    |-> opp_tag,
                 total  |-> old.total + 1,
                 wins   |-> IF PlayerWon(battle) THEN old.wins + 1 ELSE old.wins,
                 losses |-> IF ~PlayerWon(battle) /\ PlayerLost(battle)
                            THEN old.losses + 1 ELSE old.losses]]

\* the (opponent, battle) pairs the loops "for battle in battle_log: for opp in
\* opponent" visit, in order
OpponentVisits(log) ==
    Flat([k \in 1..Len(log) |->
            [j \in 1..Len(Opponent(log[k])) |->
                [opp |-> Opponent(log[k])[j], battle |-> log[k]]]])

\* if opp_tag
Tagged(visit) == Get(visit.opp, "tag", "") # ""

TrackOpponents(stats, visits) == ForEach("opponent_stats", stats, visits)

\* opponent_stats after the loop over the battle log
OpponentStats(log) == TrackOpponents(<< >>, SelectSeq(OpponentVisits(log), Tagged))

MoreBattlesMutant(a, b) == a.total >= b.total

\* max() replaces its candidate only by a strictly greater key
MoreBattles(a, b) == a.total > b.total

\* max(opponent_stats.items(), key=total): index of the chosen entry
RECURSIVE MaxByTotal(_, _, _)
MaxByTotal(stats, k, best) ==
    IF k > Len(stats) THEN best
    ELSE MaxByTotal(stats, k + 1, IF MoreBattles(stats[k], stats[best]) THEN k ELSE best)

get_nemesis(log) ==
    LET stats == OpponentStats(log)
    IN  IF log = << >> THEN NemesisSentinel
        ELSE IF stats = << >> THEN NemesisSentinel
        ELSE stats[MaxByTotal(stats, 2, 1)]

\* the test that guards the nemesis message
HasMessage(nd) == nd.name # "N/A" /\ nd.total > 0

NemesisMessage(nd) ==
    IF HasMessage(nd)
    THEN IF nd.wins > nd.losses THEN nd.name \o " is your bitch"
         ELSE IF nd.losses > nd.wins THEN "You are " \o nd.name \o "'s bitch"
         ELSE "Evenly matched with " \o nd.name
    ELSE ""

-----------------------------------------------------------------------------
(* get_trophy_roller_coaster *)

TrophyWindow == 25

RecentWindow == 10

TrophyChangeMutant(battle) == IF PlayerWon(battle) THEN 30 ELSE 0

TrophyChange(battle) == IF PlayerWon(battle) THEN 30 ELSE -30

WindowedLogMutant(log) == log

\* battle_log[:25]
WindowedLog(log) == Prefix(log, TrophyWindow)

\* trophy_changes[-10:]
RecentChanges(changes) == Suffix(changes, RecentWindow)

Items(s) == {s[k] : k \in 1..Len(s)}

\* max(trophy_changes)
SeqMax(s) == CHOOSE m \in Items(s) : \A x \in Items(s) : Max(m, x) = m

\* min(trophy_changes)
SeqMin(s) == CHOOSE m \in Items(s) : \A x \in Items(s) : Min(m, x) = m

get_trophy_roller_coaster(profile, log) ==
    LET current_trophies == Get(profile, "trophies", 0)
        best_trophies    == Get(profile, "bestTrophies", current_trophies)
        window           == WindowedLog(log)
        trophy_changes   == [k \in 1..Len(window) |-> TrophyChange(window[k])]
        biggest_gain     == IF trophy_changes # << >> THEN SeqMax(trophy_changes) ELSE 0
        biggest_loss     == IF trophy_changes # << >> THEN SeqMin(trophy_changes) ELSE 0
    IN  [current        |-> current_trophies,
         best           |-> best_trophies,
         biggest_gain   |-> biggest_gain,
         biggest_loss   |-> biggest_loss,
         total_swing    |-> IF trophy_changes # << >>
                            THEN Abs(biggest_gain) + Abs(biggest_loss) ELSE 0,
         recent_changes |-> IF trophy_changes # << >>
                            THEN RecentChanges(trophy_changes) ELSE << >>]

-----------------------------------------------------------------------------
(* Strings whose characters the code inspects: sequences of characters *)

UpperCase == <<"A", "B", "C", "D", "E", "F", "G", "H", "I", "J", "K", "L", "M",
               "N", "O", "P", "Q", "R", "S", "T", "U", "V", "W", "X", "Y", "Z">>

LowerCase == <<"a", "b", "c", "d", "e", "f", "g", "h", "i", "j", "k", "l", "m",
               "n", "o", "p", "q", "r", "s", "t", "u", "v", "w", "x", "y", "z">>

LowerChar(c) ==
    IF \E k \in 1..Len(UpperCase) : UpperCase[k] = c
    THEN LowerCase[CHOOSE k \in 1..Len(UpperCase) : UpperCase[k] = c]
    ELSE c

\* str.lower()
Lower(str) == [k \in 1..Len(str) |-> LowerChar(str[k])]

\* str.replace(ch, '')
RECURSIVE Remove(_, _)
Remove(str, ch) ==
    IF str = << >> THEN << >>
    ELSE IF Head(str) = ch THEN Remove(Tail(str), ch)
    ELSE <<Head(str)>> \o Remove(Tail(str), ch)

\* needle in hay
Contains(needle, hay) ==
    \E k \in 0..(Len(hay) - Len(needle)) : SubSeq(hay, k + 1, k + Len(needle)) = needle

\* ' '.join(strs)
RECURSIVE Join(_)
Join(strs) ==
    IF strs = << >> THEN << >>
    ELSE IF Len(strs) = 1 THEN strs[1]
    ELSE strs[1] \o <<" ">> \o Join(Tail(strs))

NA == <<"N", "/", "A">>

-----------------------------------------------------------------------------
(* get_top_loyal_cards *)

TopCount == 3

\* [card.get('name', '') for card in cards]
CardNames(cards) == [k \in 1..Len(cards) |-> Get(cards[k], "name", << >>)]

\* the card names the loops "for player in team: for card in cards" visit, in order
RECURSIVE TeamCardNames(_)
TeamCardNames(team) ==
    IF team = << >> THEN << >>
    ELSE CardNames(Get(Head(team), "cards", << >>)) \o TeamCardNames(Tail(team))

\* the card names all battles' loops visit, in order
LogCardNames(log) == Flat([k \in 1..Len(log) |-> TeamCardNames(Team(log[k]))])

\* if card_name: card_usage[card_name] += 1
CountCard(usage, card_name) ==
    LET found == IndexOf(usage, "name", card_name, 1)
    IN  IF card_name = << >> THEN usage
        ELSE IF found = 0 THEN Append(usage, [name |-> card_name, count |-> 1])
        ELSE [usage EXCEPT ![found].count = @ + 1]

CountCards(usage, names) == ForEach("card_usage", usage, names)

SetCardMutant(usage, card_name) == CountCard(usage, card_name)

\* if card_name: card_usage[card_name] = 1
SetCard(usage, card_name) ==
    LET found == IndexOf(usage, "name", card_name, 1)
    IN  IF card_name = << >> THEN usage
        ELSE IF found = 0 THEN Append(usage, [name |-> card_name, count |-> 1])
        ELSE [usage EXCEPT ![found].count = 1]

RECURSIVE SetCards(_, _)
SetCards(usage, names) ==
    IF names = << >> THEN usage
    ELSE SetCards(SetCard(usage, Head(names)), Tail(names))

GoesBeforeMutant(a, b) == a.count > b.count

\* the order of most_common between an entry a and a later-inserted entry b
GoesBefore(a, b) == a.count >= b.count

\* insert entry e, inserted into the dict after all of sorted's, at its rank
RECURSIVE InsertRanked(_, _)
InsertRanked(sorted, e) ==
    IF sorted = << >> THEN <<e>>
    ELSE IF GoesBefore(Head(sorted), e) THEN <<Head(sorted)>> \o InsertRanked(Tail(sorted), e)
    ELSE <<e>> \o sorted

RECURSIVE Ranked(_, _)
Ranked(usage, n) ==
    IF n = 0 THEN << >> ELSE InsertRanked(Ranked(usage, n - 1), usage[n])

\* Counter.most_common(n)
most_common(usage, n) == Prefix(Ranked(usage, Len(usage)), n)

IconUrl(name) ==
    <<"https://cdn.clashroyale.com/cards/300/", Remove(Lower(name), " "), ".png">>

CardUsage(profile, log) ==
    LET card_usage == CountCards(<< >>, LogCardNames(log))
    IN  IF card_usage = << >> /\ "currentDeck" \in DOMAIN profile
        THEN SetCards(card_usage, CardNames(Get(profile, "currentDeck", << >>)))
        ELSE card_usage

get_top_loyal_cards(profile, log) ==
    LET top_cards == most_common(CardUsage(profile, log), TopCount)
    IN  [k \in 1..Len(top_cards) |->
            [name  |-> top_cards[k].name,
             count |-> top_cards[k].count,
             icon  |-> IconUrl(top_cards[k].name)]]

-----------------------------------------------------------------------------
(* get_rare_gem *)

MinUses == 2

MaxUses == 5

RareGemSentinel == [name |-> NA, win_rate |-> 0, usage |-> 0]

\* card_stats[card_name]["uses"] += 1, and ["wins"] += 1 if won
UseCard(stats, card_name, won) ==
    LET found == IndexOf(stats, "name", card_name, 1)
        base  == IF found = 0
                 THEN Append(stats, [name |-> card_name, wins |-> 0, uses |-> 0])
                 ELSE stats
        k     == IF found = 0 THEN Len(base) ELSE found
    IN  IF card_name = << >> THEN stats
        ELSE [base EXCEPT ![k].uses = @ + 1,
                          ![k].wins = IF won THEN @ + 1 ELSE @]

\* the card names all battles' loops visit, in order, each with the battle's won
CardVisits(log) ==
    Flat([k \in 1..Len(log) |->
            [j \in 1..Len(TeamCardNames(Team(log[k]))) |->
                [name |-> TeamCardNames(Team(log[k]))[j], won |-> PlayerWon(log[k])]]])

UseCards(stats, visits) == ForEach("card_stats", stats, visits)

\* card_stats after the loop over the battle log
CardStats(log) == UseCards(<< >>, CardVisits(log))

\* score = wins / uses * 100 / max(uses, 1), kept as the fraction num / den
Score(st) == [num |-> 100 * st.wins, den |-> st.uses * Max(st.uses, 1)]

\* score > best_score
Beats(score, best) == score.num * best.den > best.num * score.den

\* body of the loop over card_stats.items(); acc holds rare_gem and best_score
ConsiderCard(acc, st) ==
    IF st.uses >= MinUses /\ Beats(Score(st), acc.best_score) /\ st.uses <= MaxUses
    THEN [best_score |-> Score(st),
          rare_gem   |-> [name     |-> st.name,
                          win_rate |-> RoundPercent(st.wins, st.uses),
                          usage    |-> st.uses]]
    ELSE acc

RECURSIVE ConsiderCards(_, _)
ConsiderCards(acc, stats) ==
    IF stats = << >> THEN acc
    ELSE ConsiderCards(ConsiderCard(acc, Head(stats)), Tail(stats))

None == [none |-> TRUE]

get_rare_gem(log) ==
    LET start == [best_score |-> [num |-> 0, den |-> 1], rare_gem |-> None]
        found == ConsiderCards(start, CardStats(log)).rare_gem
    IN  IF log = << >> THEN RareGemSentinel
        ELSE IF found = None THEN RareGemSentinel
        ELSE found

-----------------------------------------------------------------------------
(* get_deck_archetype *)

ArchetypeWindow == 10

cycle_cards ==
    <<<<"s", "k", "e", "l", "e", "t", "o", "n">>,
      <<"g", "o", "b", "l", "i", "n">>,
      <<"i", "c", "e", " ", "s", "p", "i", "r", "i", "t">>,
      <<"f", "i", "r", "e", " ", "s", "p", "i", "r", "i", "t">>,
      <<"b", "a", "t", "s">>>>

beatdown_cards ==
    <<<<"g", "o", "l", "e", "m">>,
      <<"g", "i", "a", "n", "t">>,
      <<"p", "e", "k", "k", "a">>,
      <<"l", "a", "v", "a", " ", "h", "o", "u", "n", "d">>,
      <<"r", "o", "y", "a", "l", " ", "g", "i", "a", "n", "t">>>>

control_cards ==
    <<<<"x", "-", "b", "o", "w">>,
      <<"m", "o", "r", "t", "a", "r">>,
      <<"t", "e", "s", "l", "a">>,
      <<"i", "n", "f", "e", "r", "n", "o">>>>

spam_cards ==
    <<<<"b", "a", "n", "d", "i", "t">>,
      <<"r", "o", "y", "a", "l", " ", "g", "h", "o", "s", "t">>,
      <<"d", "a", "r", "k", " ", "p", "r", "i", "n", "c", "e">>,
      <<"b", "a", "t", "t", "l", "e", " ", "r", "a", "m">>>>

\* any(card in card_names_str for card in keywords)
AnyIn(keywords, card_names_str) ==
    \E k \in 1..Len(keywords) : Contains(keywords[k], card_names_str)

\* sum(1 for card in cycle_cards if any(card in c for c in cards))
CycleCount(cards) ==
    Cardinality({k \in 1..Len(cycle_cards) :
                    \E c \in 1..Len(cards) : Contains(cycle_cards[k], cards[c])})

CycleThreshold == 3

Classify(cards) ==
    LET card_names_str == Join(cards)
    IN  IF AnyIn(cycle_cards, card_names_str) /\ CycleCount(cards) >= CycleThreshold
        THEN "Cycle"
        ELSE IF AnyIn(beatdown_cards, card_names_str) THEN "Beatdown"
        ELSE IF AnyIn(control_cards, card_names_str) THEN "Control"
        ELSE IF AnyIn(spam_cards, card_names_str) THEN "Bridge Spam"
        ELSE "Balanced"

\* the characters of the model in code-point order
Alphabet ==
    <<" ", "-", ".", "/", "0", "1", "2", "3", "4", "5", "6", "7", "8",
      "9", ":", "A", "B", "C", "D", "E", "F", "G", "H", "I", "J", "K",
      "L", "M", "N", "O", "P", "Q", "R", "S", "T", "U", "V", "W", "X",
      "Y", "Z", "a", "b", "c", "d", "e", "f", "g", "h", "i", "j", "k",
      "l", "m", "n", "o", "p", "q", "r", "s", "t", "u", "v", "w", "x",
      "y", "z">>

CharCode(c) == CHOOSE k \in 1..Len(Alphabet) : Alphabet[k] = c

\* a < b for two str, as Python compares them: by code point, a prefix first
RECURSIVE StrLess(_, _)
StrLess(a, b) ==
    IF b = << >> THEN FALSE
    ELSE IF a = << >> THEN TRUE
    ELSE IF Head(a) = Head(b) THEN StrLess(Tail(a), Tail(b))
    ELSE CharCode(Head(a)) < CharCode(Head(b))

\* sorted(cards)
RECURSIVE InsertSorted(_, _)
InsertSorted(sorted, str) ==
    IF sorted = << >> THEN <<str>>
    ELSE IF StrLess(str, Head(sorted)) THEN <<str>> \o sorted
    ELSE <<Head(sorted)>> \o InsertSorted(Tail(sorted), str)

RECURSIVE Sorted(_)
Sorted(strs) ==
    IF strs = << >> THEN << >> ELSE InsertSorted(Sorted(Tail(strs)), Head(strs))

\* [c.get('name', '').lower() for c in cards]
LowerNames(cards) == [k \in 1..Len(cards) |-> Lower(Get(cards[k], "name", << >>))]

\* if cards: deck_counts[tuple(sorted(cards))] += 1
CountDeck(deck_counts, player) ==
    LET cards == LowerNames(Get(player, "cards", << >>))
        deck  == Sorted(cards)
        found == IndexOf(deck_counts, "deck", deck, 1)
    IN  IF cards = << >> THEN deck_counts
        ELSE IF found = 0 THEN Append(deck_counts, [deck |-> deck, count |-> 1])
        ELSE [deck_counts EXCEPT ![found].count = @ + 1]

CountDecks(deck_counts, team) == ForEach("deck_counts", deck_counts, team)

\* the players the loops "for battle in battle_log[:10]: for player in team"
\* visit, in order
DeckPlayers(window) == Flat([k \in 1..Len(window) |-> Team(window[k])])

\* if cards
HasCards(player) == Get(player, "cards", << >>) # << >>

\* deck_counts after the loop over the window
DeckCounts(window) == CountDecks(<< >>, SelectSeq(DeckPlayers(window), HasCards))

ArchetypeLogMutant(log) == log

\* battle_log[:10]
ArchetypeLog(log) == Prefix(log, ArchetypeWindow)

get_deck_archetype(profile, log) ==
    LET window      == ArchetypeLog(log)
        deck_counts == DeckCounts(window)
    IN  IF log = << >>
        THEN IF "currentDeck" \in DOMAIN profile
             THEN Classify(LowerNames(profile.currentDeck))
             ELSE "Unknown"
        ELSE IF deck_counts = << >> THEN "Unknown"
        ELSE Classify(most_common(deck_counts, 1)[1].deck)

-----------------------------------------------------------------------------
(* get_peak_performance_hours: the timestamp *)

Digits == <<"0", "1", "2", "3", "4", "5", "6", "7", "8", "9">>

IsDigit(c) == \E k \in 1..Len(Digits) : Digits[k] = c

DigitValue(c) == (CHOOSE k \in 1..Len(Digits) : Digits[k] = c) - 1

\* re.sub(r'\.\d+', '', str): a dot and the digits after it go, a dot that no
\* digit follows stays
RECURSIVE SkipDigits(_)
SkipDigits(str) ==
    IF str # << >> /\ IsDigit(Head(str)) THEN SkipDigits(Tail(str)) ELSE str

RECURSIVE StripFraction(_)
StripFraction(str) ==
    IF str = << >> THEN << >>
    ELSE IF Head(str) = "." /\ Len(str) >= 2 /\ IsDigit(str[2])
         THEN StripFraction(SkipDigits(Tail(str)))
    ELSE <<Head(str)>> \o StripFraction(Tail(str))

\* re.sub(r'\.\d+', '', battle_time.replace('Z', ''))
CleanTime(battle_time) == StripFraction(Remove(battle_time, "Z"))

\* the value of the n characters of str from position p, when they are digits
\* (a leading space counts as nothing), else -1
FieldValue(str, p, n) ==
    IF p + n - 1 > Len(str) THEN -1
    ELSE IF n = 1 THEN (IF IsDigit(str[p]) THEN DigitValue(str[p]) ELSE -1)
    ELSE IF n = 2
         THEN (IF IsDigit(str[p]) /\ IsDigit(str[p + 1])
               THEN 10 * DigitValue(str[p]) + DigitValue(str[p + 1]) ELSE -1)
    ELSE IF \A k \in p..(p + n - 1) : IsDigit(str[k])
         THEN 1000 * DigitValue(str[p]) + 100 * DigitValue(str[p + 1])
              + 10 * DigitValue(str[p + 2]) + DigitValue(str[p + 3])
    ELSE -1

\* The alternatives of the strptime directives of '%Y%m%dT%H%M%S', in the order
\* the regular expression tries them: the lengths that match at position p.
\*   %Y \d\d\d\d      %m 1[0-2]|0[1-9]|[1-9]     %d 3[0-1]|[1-2]\d|0[1-9]|[1-9]| [1-9]
\*   %H 2[0-3]|[0-1]\d|\d      %M [0-5]\d|\d      %S 6[0-1]|[0-5]\d|\d
FieldNames == <<"Y", "m", "d", "T", "H", "M", "S">>

TwoDigitOk(f, v) ==
    CASE f = "m" -> v >= 1 /\ v <= 12
      [] f = "d" -> v >= 1 /\ v <= 31
      [] f = "H" -> v >= 0 /\ v <= 23
      [] f = "M" -> v >= 0 /\ v <= 59
      [] f = "S" -> v >= 0 /\ v <= 61
      [] OTHER   -> FALSE

OneDigitOk(f, v) ==
    CASE f \in {"m", "d"}      -> v >= 1
      [] f \in {"H", "M", "S"} -> v >= 0
      [] OTHER                 -> FALSE

Alternatives(str, p, f) ==
    IF f = "Y" THEN (IF FieldValue(str, p, 4) >= 0 THEN <<4>> ELSE << >>)
    ELSE IF f = "T" THEN (IF p <= Len(str) /\ str[p] \in {"T", "t"} THEN <<1>> ELSE << >>)
    ELSE (IF TwoDigitOk(f, FieldValue(str, p, 2)) THEN <<2>> ELSE << >>)
         \o (IF OneDigitOk(f, FieldValue(str, p, 1)) THEN <<1>> ELSE << >>)
         \o (IF f = "d" /\ p + 1 <= Len(str) /\ str[p] = " "
                /\ OneDigitOk(f, FieldValue(str, p + 1, 1)) THEN <<2>> ELSE << >>)

NoMatch == [matched |-> FALSE]

\* the first match of the directives from number k on at position p, trying each
\* directive's alternatives in order and backtracking; lens are the lengths chosen
RECURSIVE MatchFields(_, _, _, _)
RECURSIVE TryAlternatives(_, _, _, _, _)
RECURSIVE OrBacktrack(_, _, _, _, _, _)
MatchFields(str, p, k, lens) ==
    IF k > Len(FieldNames) THEN [matched |-> TRUE, lens |-> lens, end |-> p]
    ELSE TryAlternatives(str, p, k, lens, Alternatives(str, p, FieldNames[k]))

TryAlternatives(str, p, k, lens, alts) ==
    IF alts = << >> THEN NoMatch
    ELSE OrBacktrack(MatchFields(str, p + Head(alts), k + 1, Append(lens, Head(alts))),
                     str, p, k, lens, Tail(alts))

\* rest is the match of the later directives after one alternative: it stands,
\* or the next alternatives are tried
OrBacktrack(rest, str, p, k, lens, alts) ==
    IF rest.matched THEN rest ELSE TryAlternatives(str, p, k, lens, alts)

\* position of directive k in a match with the chosen lengths
RECURSIVE FieldStart(_, _)
FieldStart(lens, k) == IF k = 1 THEN 1 ELSE FieldStart(lens, k - 1) + lens[k - 1]

\* value of directive k of the match
Field(str, lens, k) ==
    LET p == FieldStart(lens, k)
    IN  IF lens[k] = 2 /\ str[p] = " " THEN FieldValue(str, p + 1, 1)
        ELSE FieldValue(str, p, lens[k])

IsLeap(year) == year % 4 = 0 /\ (year % 100 # 0 \/ year % 400 = 0)

DaysInMonth(year, month) ==
    IF month = 2 THEN (IF IsLeap(year) THEN 29 ELSE 28)
    ELSE IF month \in {4, 6, 9, 11} THEN 30
    ELSE 31

NoHour == -1

\* datetime.strptime(clean_time, '%Y%m%dT%H%M%S').hour, NoHour when it raises
\* the hour of the datetime built from the match m of the format
HourOfMatch(clean_time, m) ==
    IF ~m.matched THEN NoHour
    ELSE IF m.end # Len(clean_time) + 1 THEN NoHour
    ELSE LET year   == Field(clean_time, m.lens, 1)
             month  == Field(clean_time, m.lens, 2)
             day    == Field(clean_time, m.lens, 3)
             hour   == Field(clean_time, m.lens, 5)
             second == Field(clean_time, m.lens, 7)
         IN  IF year < 1 \/ day > DaysInMonth(year, month) \/ second > 59
             THEN NoHour
             ELSE hour

ParseHour(clean_time) == HourOfMatch(clean_time, MatchFields(clean_time, 1, 1, << >>))

\* the hour a battle is counted under, NoHour when it is skipped
BattleHour(battle) ==
    LET battle_time == Get(battle, "battleTime", << >>)
    IN  IF battle_time = << >> THEN NoHour ELSE ParseHour(CleanTime(battle_time))

-----------------------------------------------------------------------------
(* get_peak_performance_hours *)

MinBattles == 3

PeakSentinel == [hour |-> "N/A", win_rate |-> 0]

\* hour_stats[hour]["total"] += 1, and ["wins"] += 1 on a win; a battle whose
\* timestamp is absent, empty or raises in the parse is passed over
CountAtHour(stats, hour, battle) ==
    LET found == IndexOf(stats, "hour", hour, 1)
        base  == IF found = 0
                 THEN Append(stats, [hour |-> hour, wins |-> 0, total |-> 0])
                 ELSE stats
        k     == IF found = 0 THEN Len(base) ELSE found
    IN  IF hour = NoHour THEN stats
        ELSE [base EXCEPT ![k].total = @ + 1,
                          ![k].wins = IF PlayerWon(battle) THEN @ + 1 ELSE @]


\* a battle that reaches "hour = dt.hour", with that hour: its timestamp is
\* non-empty and parses
HourVisit(battle, hour) ==
    IF hour = NoHour THEN << >> ELSE <<[hour |-> hour, battle |-> battle]>>

\* the battles the loop counts, in order, each with its hour
HourVisits(log) == Flat([k \in 1..Len(log) |-> HourVisit(log[k], BattleHour(log[k]))])

CountHours(stats, visits) == ForEach("hour_stats", stats, visits)

\* hour_stats after the loop over the battle log
HourStats(log) == CountHours(<< >>, HourVisits(log))

EligibleMutant(st) == st.total >= MinBattles - 1

\* if stats["total"] >= 3
Eligible(st) == st.total >= MinBattles

\* win_rate > best_win_rate, the rates kept as fractions wins / total
BetterRate(st, best) == st.wins * best.den > best.num * st.total

\* body of the loop over hour_stats.items(); acc holds best_hour and best_win_rate
ConsiderHour(acc, st) ==
    IF Eligible(st) /\ BetterRate(st, acc.best_win_rate)
    THEN [best_hour |-> st.hour, best_win_rate |-> [num |-> st.wins, den |-> st.total]]
    ELSE acc

RECURSIVE ConsiderHours(_, _)
ConsiderHours(acc, stats) ==
    IF stats = << >> THEN acc
    ELSE ConsiderHours(ConsiderHour(acc, Head(stats)), Tail(stats))

\* f"{best_hour}" for an hour of the day
HourText ==
    <<"0", "1", "2", "3", "4", "5", "6", "7", "8", "9", "10", "11",
      "12", "13", "14", "15", "16", "17", "18", "19", "20", "21", "22", "23">>

Str(n) == HourText[n + 1]

Noon == 12

FormatHour(best_hour) ==
    IF best_hour < Noon THEN Str(best_hour) \o ":00" \o " AM"
    ELSE Str(IF best_hour > Noon THEN best_hour - Noon ELSE best_hour) \o ":00 PM"

\* the hour the final loop settles on, NoHour for None
BestHour(stats) ==
    ConsiderHours([best_hour |-> NoHour, best_win_rate |-> [num |-> 0, den |-> 1]], stats)

\* what is returned once the final loop has settled on best
PeakOf(best) ==
    IF best.best_hour = NoHour THEN PeakSentinel
    ELSE [hour     |-> FormatHour(best.best_hour),
          win_rate |-> RoundPercent(best.best_win_rate.num, best.best_win_rate.den)]

\* the bodies of the loops over the visits of a battle log
Body(loop, acc, item) ==
    CASE loop = "opponent_stats" -> TrackOpponent(acc, item.opp, item.battle)
      [] loop = "card_usage"     -> CountCard(acc, item)
      [] loop = "card_stats"     -> UseCard(acc, item.name, item.won)
      [] loop = "deck_counts"    -> CountDeck(acc, item)
      [] loop = "hour_stats"     -> CountAtHour(acc, item.hour, item.battle)

\* the rest of the function once hour_stats is built
PeakAmong(log, stats) ==
    IF log = << >> THEN PeakSentinel
    ELSE IF stats = << >> THEN PeakSentinel
    ELSE PeakOf(BestHour(stats))

get_peak_performance_hours(log) == PeakAmong(log, HourStats(log))

-----------------------------------------------------------------------------
(* analyze_player: the extractors run in the order the code calls them *)

Pending == "pending"

\* get_nemesis(battle_log)
Nemesis ==
    /\ pc = "get_nemesis"
    /\ nemesis_data' = get_nemesis(battle_log)
    /\ pc' = "nemesis_message"
    /\ UNCHANGED <<player_data, battle_log, i, max_streak, current_streak,
                   comeback_wins, total_wins, nemesis_message, insights>>

\* the nemesis relationship message
Message ==
    /\ pc = "nemesis_message"
    /\ nemesis_message' = NemesisMessage(nemesis_data)
    /\ pc' = "get_top_loyal_cards"
    /\ UNCHANGED <<player_data, battle_log, i, max_streak, current_streak,
                   comeback_wins, total_wins, nemesis_data, insights>>

TopLoyalCards ==
    /\ pc = "get_top_loyal_cards"
    /\ insights' = insights @@
          ("top_loyal_cards" :> get_top_loyal_cards(player_data, battle_log))
    /\ pc' = "get_longest_win_streak"
    /\ UNCHANGED <<player_data, battle_log, i, max_streak, current_streak,
                   comeback_wins, total_wins, nemesis_data, nemesis_message>>

\* get_longest_win_streak: the empty-list return, or the locals before the loop
StreakCall ==
    /\ pc = "get_longest_win_streak"
    /\ IF battle_log = << >>
       THEN /\ insights' = insights @@ ("longest_win_streak" :> 0)
            /\ pc' = "get_comeback_king_percentage"
            /\ UNCHANGED <<i, max_streak, current_streak>>
       ELSE /\ max_streak' = 0
            /\ current_streak' = 0
            /\ i' = 1
            /\ pc' = "streak_loop"
            /\ UNCHANGED insights
    /\ UNCHANGED <<player_data, battle_log, comeback_wins, total_wins,
                   nemesis_data, nemesis_message>>

StreakWinMutant(cur, best) == [current_streak |-> cur + 1, max_streak |-> cur + 1]

\* the WIN branch of the streak loop
StreakWin(cur, best) == [current_streak |-> cur + 1, max_streak |-> Max(best, cur + 1)]

\* one iteration of the streak loop
StreakStep ==
    /\ pc = "streak_loop"
    /\ i <= Len(battle_log)
    /\ IF PlayerWon(battle_log[i])
       THEN /\ current_streak' = StreakWin(current_streak, max_streak).current_streak
            /\ max_streak' = StreakWin(current_streak, max_streak).max_streak
       ELSE /\ current_streak' = 0
            /\ UNCHANGED max_streak
    /\ i' = i + 1
    /\ UNCHANGED <<player_data, battle_log, pc, comeback_wins, total_wins,
                   nemesis_data, nemesis_message, insights>>

StreakReturn ==
    /\ pc = "streak_loop"
    /\ i > Len(battle_log)
    /\ insights' = insights @@ ("longest_win_streak" :> max_streak)
    /\ pc' = "get_comeback_king_percentage"
    /\ UNCHANGED <<player_data, battle_log, i, max_streak, current_streak,
                   comeback_wins, total_wins, nemesis_data, nemesis_message>>

\* get_comeback_king_percentage: the empty-list return, or the locals before the loop
ComebackCall ==
    /\ pc = "get_comeback_king_percentage"
    /\ IF battle_log = << >>
       THEN /\ insights' = insights @@ ("comeback_king_percentage" :> 0)
            /\ pc' = "get_deck_archetype"
            /\ UNCHANGED <<i, comeback_wins, total_wins>>
       ELSE /\ comeback_wins' = 0
            /\ total_wins' = 0
            /\ i' = 1
            /\ pc' = "comeback_loop"
            /\ UNCHANGED insights
    /\ UNCHANGED <<player_data, battle_log, max_streak, current_streak,
                   nemesis_data, nemesis_message>>

\* if opponent_crowns > 0
IsComeback(battle) == OpponentCrowns(battle) > 0

\* one iteration of the comeback loop
ComebackStep ==
    /\ pc = "comeback_loop"
    /\ i <= Len(battle_log)
    /\ IF PlayerWon(battle_log[i])
       THEN /\ total_wins' = total_wins + 1
            /\ comeback_wins' = IF IsComeback(battle_log[i])
                                THEN comeback_wins + 1 ELSE comeback_wins
       ELSE UNCHANGED <<total_wins, comeback_wins>>
    /\ i' = i + 1
    /\ UNCHANGED <<player_data, battle_log, pc, max_streak, current_streak,
                   nemesis_data, nemesis_message, insights>>

ComebackResultMutant(comebacks, wins) == IF wins = 0 THEN 0 ELSE (1000 * comebacks) \div wins

\* the value returned after the loop, in tenths of a percent
ComebackResult(comebacks, wins) ==
    IF wins = 0 THEN 0 ELSE RoundPercent(comebacks, wins)

ComebackReturn ==
    /\ pc = "comeback_loop"
    /\ i > Len(battle_log)
    /\ insights' = insights @@
          ("comeback_king_percentage" :> ComebackResult(comeback_wins, total_wins))
    /\ pc' = "get_deck_archetype"
    /\ UNCHANGED <<player_data, battle_log, i, max_streak, current_streak,
                   comeback_wins, total_wins, nemesis_data, nemesis_message>>

DeckArchetype ==
    /\ pc = "get_deck_archetype"
    /\ insights' = insights @@
          ("deck_archetype" :> get_deck_archetype(player_data, battle_log))
    /\ pc' = "get_rare_gem"
    /\ UNCHANGED <<player_data, battle_log, i, max_streak, current_streak,
                   comeback_wins, total_wins, nemesis_data, nemesis_message>>

\* get_rare_gem, then the nemesis entry {**nemesis_data, "message": ...}
RareGem ==
    /\ pc = "get_rare_gem"
    /\ insights' = insights @@ ("rare_gem" :> get_rare_gem(battle_log))
                            @@ ("nemesis" :> (("message" :> nemesis_message) @@ nemesis_data))
    /\ pc' = "get_peak_performance_hours"
    /\ UNCHANGED <<player_data, battle_log, i, max_streak, current_streak,
                   comeback_wins, total_wins, nemesis_data, nemesis_message>>

PeakHours ==
    /\ pc = "get_peak_performance_hours"
    /\ insights' = insights @@
          ("peak_performance_hours" :> get_peak_performance_hours(battle_log))
    /\ pc' = "get_trophy_roller_coaster"
    /\ UNCHANGED <<player_data, battle_log, i, max_streak, current_streak,
                   comeback_wins, total_wins, nemesis_data, nemesis_message>>

\* get_trophy_roller_coaster, then the two passthrough fields and the return
TrophyRollerCoaster ==
    /\ pc = "get_trophy_roller_coaster"
    /\ insights' = insights @@
          ("trophy_roller_coaster" :> get_trophy_roller_coaster(player_data, battle_log))
          @@ ("player_name" :> Get(player_data, "name", "Unknown"))
          @@ ("player_tag" :> Get(player_data, "tag", ""))
    /\ pc' = "done"
    /\ UNCHANGED <<player_data, battle_log, i, max_streak, current_streak,
                   comeback_wins, total_wins, nemesis_data, nemesis_message>>

Next ==
    \/ Nemesis
    \/ Message
    \/ TopLoyalCards
    \/ StreakCall
    \/ StreakStep
    \/ StreakReturn
    \/ ComebackCall
    \/ ComebackStep
    \/ ComebackReturn
    \/ DeckArchetype
    \/ RareGem
    \/ PeakHours
    \/ TrophyRollerCoaster

\* the state at the call analyze_player(profile, log), for inputs drawn from
\* the given sets
Called(profiles, logs) ==
    /\ player_data \in profiles
    /\ battle_log \in logs
    /\ pc = "get_nemesis"
    /\ i = 0
    /\ max_streak = 0
    /\ current_streak = 0
    /\ comeback_wins = 0
    /\ total_wins = 0
    /\ nemesis_data = None
    /\ nemesis_message = Pending
    /\ insights = EmptyDict

-----------------------------------------------------------------------------
(* The inputs the behaviours start from *)

SeqsUpTo(S, n) == UNION {[1..k -> S] : k \in 0..n}

\* a participant with nothing but crowns
P(c) == [crowns |-> c]

BasicProfile == [name |-> "X", tag |-> "#X", trophies |-> 5000, bestTrophies |-> 5200]

(* Battles that differ in the crowns of the two sides *)

CleanWin == [team |-> <<P(1)>>, opponent |-> <<P(0)>>]

ComebackWin == [team |-> <<P(2), P(1)>>, opponent |-> <<P(1), P(1)>>]

Loss == [team |-> <<P(0)>>, opponent |-> <<P(1)>>]

Draw == [team |-> <<P(1)>>, opponent |-> <<P(1)>>]

\* no opponent key: the opponent side sums to 0
Walkover == [team |-> <<P(2)>>]

\* a team participant without crowns
NoCrowns == [team |-> <<EmptyDict>>, opponent |-> <<P(1)>>]

CrownBattles == {CleanWin, ComebackWin, Loss, Draw, Walkover, NoCrowns, EmptyDict}

MaxStreakLen == 4

InitStreak == Called({BasicProfile}, SeqsUpTo(CrownBattles, MaxStreakLen))

SpecStreak == InitStreak /\ [][Next]_vars

(* Battles that differ in the opponents met *)

Opp(name, tag, c) == [name |-> name, tag |-> tag, crowns |-> c]

WinVsA == [team |-> <<P(1)>>, opponent |-> <<Opp("Ann", "#A", 0)>>]

\* the same tag under another display name
LossVsA == [team |-> <<P(0)>>, opponent |-> <<Opp("Anna", "#A", 1)>>]

DrawVsB == [team |-> <<P(1)>>, opponent |-> <<Opp("Bob", "#B", 1)>>]

\* an opponent whose display name is the text N/A
WinVsNA == [team |-> <<P(1)>>, opponent |-> <<Opp("N/A", "#N", 0)>>]

\* two opponents: one without a name, one with an empty tag
WinVsPair == [team |-> <<P(1), P(0)>>,
              opponent |-> <<[tag |-> "#B", crowns |-> 0], Opp("Cy", "", 0)>>]

\* an opponent without a tag
LossVsUntagged == [team |-> <<P(0)>>, opponent |-> <<[name |-> "Dan", crowns |-> 2]>>]

OpponentBattles == {WinVsA, LossVsA, DrawVsB, WinVsNA, WinVsPair, LossVsUntagged, Walkover}

MaxNemesisLen == 4

InitNemesis == Called({BasicProfile}, SeqsUpTo(OpponentBattles, MaxNemesisLen))

SpecNemesis == InitNemesis /\ [][Next]_vars

(* Battles that differ in the cards played *)

Giant == <<"G", "i", "a", "n", "t">>

Bats == <<"B", "a", "t", "s">>

Knight == <<"K", "n", "i", "g", "h", "t">>

Tesla == <<"T", "e", "s", "l", "a">>

IceSpirit == <<"I", "c", "e", " ", "S", "p", "i", "r", "i", "t">>

GoblinBarrel == <<"G", "o", "b", "l", "i", "n", " ", "B", "a", "r", "r", "e", "l">>

Bandit == <<"B", "a", "n", "d", "i", "t">>

Ice == <<"I", "c", "e">>

Spirit == <<"S", "p", "i", "r", "i", "t">>

Card(name) == [name |-> name]

Player(c, names) == [crowns |-> c, cards |-> [k \in 1..Len(names) |-> Card(names[k])]]

DeckOne == <<Giant, Bats>>

DeckTwo == <<Bats, Knight, Tesla>>

WinOne == [team |-> <<Player(1, DeckOne)>>, opponent |-> <<P(0)>>]

LossOne == [team |-> <<Player(0, DeckOne)>>, opponent |-> <<P(1)>>]

WinTwo == [team |-> <<Player(1, DeckTwo)>>, opponent |-> <<P(0)>>]

LossTwo == [team |-> <<Player(0, DeckTwo)>>, opponent |-> <<P(1)>>]

\* two team participants, each with the same card
WinDuo == [team |-> <<Player(1, <<Giant>>), Player(0, <<Giant>>)>>, opponent |-> <<P(0)>>]

LossDuo == [team |-> <<Player(0, <<Giant>>), Player(0, <<Giant>>)>>, opponent |-> <<P(1)>>]

\* a card with an empty name and a card without a name
WinNameless ==
    [team |-> <<[crowns |-> 1, cards |-> <<Card(<< >>), EmptyDict, Card(Knight)>>]>>,
     opponent |-> <<P(0)>>]

CardBattles == {WinOne, LossOne, WinTwo, LossTwo, WinDuo, LossDuo, WinNameless, Loss}

DeckProfile == [name |-> "X", tag |-> "#X", trophies |-> 5000, bestTrophies |-> 5200,
                currentDeck |-> <<[name |-> Giant]>>]

MaxCardLen == 3

InitCards == Called({BasicProfile, DeckProfile}, SeqsUpTo(CardBattles, MaxCardLen))

SpecCards == InitCards /\ [][Next]_vars

(* Battles that differ in the timestamp *)

\* hour 12, with milliseconds
NoonStamp ==
    <<"2", "0", "2", "4", "0", "1", "0", "1", "T", "1",
      "2", "0", "0", "0", "0", ".", "0", "0", "0", "Z">>

\* hour 12 on a leap day, a lower-case t
LeapNoonStamp ==
    <<"2", "0", "2", "4", "0", "2", "2", "9", "t", "1",
      "2", "5", "9", "5", "9", "Z">>

\* hour 13
OneStamp ==
    <<"2", "0", "2", "4", "0", "1", "0", "1", "T", "1",
      "3", "0", "5", "0", "0", "Z">>

\* hour 9: one-digit month, day, hour, minute and second
ShortStamp ==
    <<"2", "0", "2", "4", "1", "1", "T", "9", "0", "0">>

\* no match of the format
DashedStamp ==
    <<"2", "0", "2", "4", "-", "0", "1", "-", "0", "1",
      "T", "1", "2", ":", "0", "0", ":", "0", "0", "Z">>

\* matches the format, no such day
NoSuchDayStamp ==
    <<"2", "0", "2", "3", "0", "2", "2", "9", "T", "1",
      "2", "0", "0", "0", "0", "Z">>

\* hour 24: the match leaves a character over
LateStamp ==
    <<"2", "0", "2", "4", "0", "1", "0", "1", "T", "2",
      "4", "0", "0", "0", "0", "Z">>

\* a dot that no digit follows
DotStamp ==
    <<"2", "0", "2", "4", "0", "1", "0", "1", "T", "1",
      "2", "0", "0", "0", "0", ".", "Z">>

Timed(battle, stamp) == battle @@ [battleTime |-> stamp]

HourBattles ==
    {Timed(CleanWin, NoonStamp), Timed(Loss, NoonStamp), Timed(Loss, ShortStamp),
     Timed(CleanWin, DashedStamp), Timed(CleanWin, NoSuchDayStamp),
     Timed(CleanWin, LateStamp),
     Timed(CleanWin, << >>), CleanWin}

\* the battles of two hours, for the logs long enough to fill two buckets
TwoHourBattles ==
    {Timed(CleanWin, NoonStamp), Timed(Loss, NoonStamp),
     Timed(CleanWin, OneStamp), Timed(Loss, OneStamp)}

MaxHourLen == 3

MaxTwoHourLen == 5

\* one battle with a stamp of a rarer shape
OddStampLogs == {<<Timed(CleanWin, stamp)>> : stamp \in {LeapNoonStamp, DotStamp}}

InitHours ==
    Called({BasicProfile}, SeqsUpTo(HourBattles, MaxHourLen)
                           \cup SeqsUpTo(TwoHourBattles, MaxTwoHourLen)
                           \cup OddStampLogs)

SpecHours == InitHours /\ [][Next]_vars

(* Profiles, with the empty battle log and the logs of one battle *)

GiantDeck == <<Card(Giant)>>

ControlDeck == <<Card(Tesla), Card(Knight)>>

SpamDeck == <<Card(Bandit), Card(Knight)>>

KnightDeck == <<Card(Knight)>>

\* two cards whose names joined by a space read "ice spirit"
SplitNameDeck == <<Card(Ice), Card(Spirit)>>

CycleDeck == <<Card(IceSpirit), Card(Bats), Card(GoblinBarrel), Card(Giant)>>

\* a repeated card, a card with an empty name and a card without a name
MixedDeck ==
    <<Card(Knight), Card(<< >>), EmptyDict, Card(Knight), Card(Bats), Card(Tesla), Card(Giant)>>

WithDeck(deck) == [name |-> "X", tag |-> "#X", currentDeck |-> deck]

Profiles ==
    {BasicProfile, DeckProfile, EmptyDict,
     [name |-> "Y", trophies |-> 4000],
     [tag |-> "#Z", currentDeck |-> << >>],
     WithDeck(ControlDeck), WithDeck(SpamDeck), WithDeck(KnightDeck),
     WithDeck(SplitNameDeck), WithDeck(CycleDeck), WithDeck(MixedDeck)}

MaxProfileLogLen == 1

InitProfiles == Called(Profiles, SeqsUpTo({WinOne, LossTwo, Draw}, MaxProfileLogLen))

SpecProfiles == InitProfiles /\ [][Next]_vars

(* Long battle logs: wins up to a first cut, losses up to a second, then draws
   and wins in turn *)

MaxTrophyLen == 27

CutLog(n, a, b) ==
    [k \in 1..n |-> IF k <= a THEN CleanWin
                    ELSE IF k <= b THEN Loss
                    ELSE IF k % 2 = 0 THEN ComebackWin ELSE Draw]

TrophyLogs ==
    {CutLog(n, c[1], c[2]) :
        n \in 0..MaxTrophyLen, c \in {d \in (0..MaxTrophyLen) \X (0..MaxTrophyLen) : d[1] <= d[2]}}

InitTrophy == Called({BasicProfile, EmptyDict}, TrophyLogs)

SpecTrophy == InitTrophy /\ [][Next]_vars

(* Logs reaching past the archetype window: a head of one kind of battle, a
   middle of another and a tail of a third *)

\* one signature in two card orders and two spellings
GiantFirst == [team |-> <<Player(1, <<Giant, Tesla>>)>>, opponent |-> <<P(0)>>]

GiantLast ==
    [team |-> <<Player(0, <<<<"T", "E", "S", "L", "A">>, Giant>>)>>, opponent |-> <<P(1)>>]

\* two team participants, both with the control deck, the second without crowns
ControlDuo ==
    [team |-> <<Player(1, <<Tesla, Knight>>), [cards |-> <<Card(Knight), Card(Tesla)>>]>>,
     opponent |-> <<P(0)>>]

\* a participant with an empty card list beside one without the field
NoDeck == [team |-> <<[crowns |-> 1, cards |-> << >>], P(1)>>, opponent |-> <<P(1)>>]

DeckBattles == {GiantFirst, GiantLast, ControlDuo, NoDeck}

MaxDeckLen == 12

MaxHead == 2

BlockLog(n, a, b, x, y, z) ==
    [k \in 1..n |-> IF k <= a THEN x ELSE IF k <= b THEN y ELSE z]

DeckLogs ==
    {BlockLog(n, a, b, t[1], t[2], t[3]) :
        n \in 0..MaxDeckLen, a \in 0..MaxHead, b \in 0..MaxDeckLen,
        t \in {u \in DeckBattles \X DeckBattles \X DeckBattles : u[1] # u[2] /\ u[2] # u[3]}}

InitDecks == Called({DeckProfile}, DeckLogs)

SpecDecks == InitDecks /\ [][Next]_vars

-----------------------------------------------------------------------------
(* What the claims speak of, stated apart from the code's loops *)

\* WIN: the team's crown sum is strictly greater than the opponent's
Win(battle) == SumCrowns(Get(battle, "team", << >>)) > SumCrowns(Get(battle, "opponent", << >>))

Lost(battle) == SumCrowns(Get(battle, "opponent", << >>)) > SumCrowns(Get(battle, "team", << >>))

Drawn(battle) == ~Win(battle) /\ ~Lost(battle)

Returned(key) == key \in DOMAIN insights

\* the battles a..b of the log are all wins
WinRun(log, a, b) == \A k \in a..b : Win(log[k])

\* length of the longest run of consecutive wins among the first n battles
LongestWinRun(log, n) ==
    CHOOSE len \in 0..n :
        /\ \E a \in 1..(n + 1) : a + len - 1 <= n /\ WinRun(log, a, a + len - 1)
        /\ \A a \in 1..n : a + len <= n => ~WinRun(log, a, a + len)

\* length of the run of wins that ends with battle n
WinRunEndingAt(log, n) ==
    CHOOSE len \in 0..n :
        /\ WinRun(log, n - len + 1, n)
        /\ len < n => ~Win(log[n - len])

NumWins(log, n) == Cardinality({k \in 1..n : Win(log[k])})

NumComebackWins(log, n) ==
    Cardinality({k \in 1..n : Win(log[k]) /\ SumCrowns(Get(log[k], "opponent", << >>)) > 0})

-----------------------------------------------------------------------------
(* C1 *)

\* C1: get_longest_win_streak returns the length of the longest run of
\* consecutive WIN battles in the order received, a LOSS or a DRAW ending the
\* run; the result is at most len(battle_log) and 0 for the empty list; at every
\* step of the scan current_streak <= max_streak <= number of battles scanned.
C1_LongestWinStreak ==
    /\ pc = "streak_loop" =>
          /\ current_streak <= max_streak
          /\ max_streak <= i - 1
          /\ max_streak = LongestWinRun(battle_log, i - 1)
          /\ current_streak = WinRunEndingAt(battle_log, i - 1)
    /\ Returned("longest_win_streak") =>
          /\ insights.longest_win_streak = LongestWinRun(battle_log, Len(battle_log))
          /\ insights.longest_win_streak <= Len(battle_log)
          /\ battle_log = << >> => insights.longest_win_streak = 0

\* a streak of two, then a draw, then a shorter streak still running at the end
C1_Witness ==
    /\ pc = "done"
    /\ Len(battle_log) = 4
    /\ Drawn(battle_log[3])
    /\ insights.longest_win_streak = 2
    /\ current_streak = 1

-----------------------------------------------------------------------------
(* C2 *)

\* C2 as stated: get_comeback_king_percentage returns a value in [0, 100] equal
\* to (WIN battles with opponent crown sum > 0) / (WIN battles) * 100, and 0.0
\* when the list holds no WIN; throughout the scan comeback_wins <= total_wins.
\* The returned value is in tenths.
C2_ExactPercentage ==
    /\ pc = "comeback_loop" => comeback_wins <= total_wins
    /\ Returned("comeback_king_percentage") =>
          LET wins      == NumWins(battle_log, Len(battle_log))
              comebacks == NumComebackWins(battle_log, Len(battle_log))
              result    == insights.comeback_king_percentage
          IN  /\ result >= 0 /\ result <= 1000
              /\ wins = 0 => result = 0
              /\ wins > 0 => result * wins = 1000 * comebacks

\* C2 amended: the value returned is that quotient rounded to one decimal: the
\* tenth nearest to it, within half a tenth (an exact half going to the even
\* tenth); the rest as stated.
C2_RoundedPercentage ==
    /\ pc = "comeback_loop" =>
          /\ comeback_wins <= total_wins
          /\ total_wins = NumWins(battle_log, i - 1)
          /\ comeback_wins = NumComebackWins(battle_log, i - 1)
    /\ Returned("comeback_king_percentage") =>
          LET wins      == NumWins(battle_log, Len(battle_log))
              comebacks == NumComebackWins(battle_log, Len(battle_log))
              result    == insights.comeback_king_percentage
              off       == Abs(result * wins - 1000 * comebacks)
          IN  /\ result >= 0 /\ result <= 1000
              /\ wins = 0 => result = 0
              /\ wins > 0 => 2 * off <= wins
              /\ wins > 0 /\ 2 * off = wins => result % 2 = 0

\* one comeback among three wins: 33.3
C2_Witness ==
    /\ pc = "done"
    /\ NumWins(battle_log, Len(battle_log)) = 3
    /\ NumComebackWins(battle_log, Len(battle_log)) = 1
    /\ insights.comeback_king_percentage = 333

-----------------------------------------------------------------------------
(* Card usage, stated apart from the code's loops *)

CardsOf(log, b, p) == Get(Get(log[b], "team", << >>)[p], "cards", << >>)

\* the places <<battle, participant, card>> where a team-side participant plays
\* a card with a non-empty name
CardUses(log) ==
    UNION {UNION {{<<b, p, c>> : c \in {x \in 1..Len(CardsOf(log, b, p)) :
                                           Get(CardsOf(log, b, p)[x], "name", << >>) # << >>}} :
                  p \in 1..Len(Get(log[b], "team", << >>))} :
           b \in 1..Len(log)}

NameAt(log, t) == CardsOf(log, t[1], t[2])[t[3]].name

UsedNames(log) == {NameAt(log, t) : t \in CardUses(log)}

UsesOf(log, name) == {t \in CardUses(log) : NameAt(log, t) = name}

UsageTotal(log, name) == Cardinality(UsesOf(log, name))

UsageWins(log, name) == Cardinality({t \in UsesOf(log, name) : Win(log[t[1]])})

\* place t comes before place u in the scan
Earlier(t, u) ==
    \/ t[1] < u[1]
    \/ t[1] = u[1] /\ t[2] < u[2]
    \/ t[1] = u[1] /\ t[2] = u[2] /\ t[3] < u[3]

FirstUse(log, name) ==
    CHOOSE t \in UsesOf(log, name) : \A u \in UsesOf(log, name) : u = t \/ Earlier(t, u)

\* name a is ranked before name b: more uses, or as many and met first
RankedBefore(log, a, b) ==
    \/ UsageTotal(log, a) > UsageTotal(log, b)
    \/ /\ UsageTotal(log, a) = UsageTotal(log, b)
       /\ Earlier(FirstUse(log, a), FirstUse(log, b))

\* top is the ranking of the log's card names, cut at three
IsTopOfLog(top, log) ==
    /\ Len(top) = Min(3, Cardinality(UsedNames(log)))
    /\ \A k \in 1..Len(top) :
          /\ top[k].name \in UsedNames(log)
          /\ top[k].count = UsageTotal(log, top[k].name)
    /\ \A k, l \in 1..Len(top) : k < l => RankedBefore(log, top[k].name, top[l].name)
    /\ \A n \in UsedNames(log) :
          (\A k \in 1..Len(top) : top[k].name # n) =>
              \A k \in 1..Len(top) : RankedBefore(log, top[k].name, n)

\* the non-empty names of a deck, and the position each is first met at
DeckNames(deck) ==
    {Get(deck[k], "name", << >>) : k \in 1..Len(deck)} \ {<< >>}

FirstInDeck(deck, name) ==
    CHOOSE k \in 1..Len(deck) :
        /\ Get(deck[k], "name", << >>) = name
        /\ \A j \in 1..(k - 1) : Get(deck[j], "name", << >>) # name

\* top holds the first three distinct names of the deck, each with count 1
IsTopOfDeck(top, deck) ==
    /\ Len(top) = Min(3, Cardinality(DeckNames(deck)))
    /\ \A k \in 1..Len(top) : top[k].name \in DeckNames(deck) /\ top[k].count = 1
    /\ \A k, l \in 1..Len(top) :
          k < l => FirstInDeck(deck, top[k].name) < FirstInDeck(deck, top[l].name)
    /\ \A n \in DeckNames(deck) :
          (\A k \in 1..Len(top) : top[k].name # n) =>
              \A k \in 1..Len(top) : FirstInDeck(deck, top[k].name) < FirstInDeck(deck, n)

-----------------------------------------------------------------------------
(* C3 *)

\* C3 as stated: for every profile and match list, get_top_loyal_cards returns
\* min(3, number of distinct non-empty card names used by team-side
\* participants) entries whose counts are the per-name usage totals over all
\* matches, ordered by count descending, the card met first in the scan coming
\* first among equal counts (and being the one kept when the cut at 3 falls
\* inside a tie).
C3_TopLoyalFromLog ==
    pc = "done" => IsTopOfLog(insights.top_loyal_cards, battle_log)

\* C3 amended: that holds whenever some team-side participant plays a card with
\* a non-empty name or the profile has no currentDeck; when no such card is
\* played and the profile has a currentDeck, the entries are the first
\* min(3, number of distinct non-empty names) names of currentDeck, each with
\* count 1.
C3_TopLoyalWithFallback ==
    pc = "done" =>
        IF UsedNames(battle_log) # {} \/ "currentDeck" \notin DOMAIN player_data
        THEN IsTopOfLog(insights.top_loyal_cards, battle_log)
        ELSE IsTopOfDeck(insights.top_loyal_cards, player_data.currentDeck)

\* four names played, the third and the fourth with the same count: the cut
\* falls inside a tie
C3_Witness ==
    /\ pc = "done"
    /\ Cardinality(UsedNames(battle_log)) = 4
    /\ Len(insights.top_loyal_cards) = 3
    /\ insights.top_loyal_cards[1].count > insights.top_loyal_cards[2].count
    /\ \E n \in UsedNames(battle_log) :
          /\ \A k \in 1..3 : insights.top_loyal_cards[k].name # n
          /\ UsageTotal(battle_log, n) = insights.top_loyal_cards[3].count

-----------------------------------------------------------------------------
(* C7 *)

\* the cards with 2 <= uses <= 5
GemCandidates(log) ==
    {n \in UsedNames(log) : UsageTotal(log, n) >= 2 /\ UsageTotal(log, n) <= 5}

\* score (wins / uses * 100) / uses of a is greater than, or equal to, that of b
ScoreGreater(log, a, b) ==
    UsageWins(log, a) * UsageTotal(log, b) * UsageTotal(log, b)
        > UsageWins(log, b) * UsageTotal(log, a) * UsageTotal(log, a)

ScoreEqual(log, a, b) ==
    UsageWins(log, a) * UsageTotal(log, b) * UsageTotal(log, b)
        = UsageWins(log, b) * UsageTotal(log, a) * UsageTotal(log, a)

\* C7: get_rare_gem returns the card with the highest score
\* (wins/uses*100)/uses among the cards with 2 <= uses <= 5, the first such card
\* met winning ties, and returns the sentinel {N/A, 0, 0} only if no card has
\* 2 <= uses <= 5 or the list is empty; a card used exactly twice, both times in
\* WIN matches, is returned with win_rate 100.0 and usage 2 unless a card met
\* earlier has the same score.
C7_RareGemBestScore ==
    pc = "done" =>
        LET gem   == insights.rare_gem
            cands == GemCandidates(battle_log)
        IN  /\ gem = RareGemSentinel => cands = {}
            /\ cands # {} =>
                  /\ gem.name \in cands
                  /\ gem.usage = UsageTotal(battle_log, gem.name)
                  /\ \A m \in cands \ {gem.name} :
                        \/ ScoreGreater(battle_log, gem.name, m)
                        \/ /\ ScoreEqual(battle_log, gem.name, m)
                           /\ Earlier(FirstUse(battle_log, gem.name), FirstUse(battle_log, m))
            /\ \A n \in cands :
                  /\ UsageTotal(battle_log, n) = 2
                  /\ UsageWins(battle_log, n) = 2
                  /\ \A m \in cands \ {n} :
                        ScoreEqual(battle_log, m, n) =>
                            Earlier(FirstUse(battle_log, n), FirstUse(battle_log, m))
                  => gem = [name |-> n, win_rate |-> 1000, usage |-> 2]

-----------------------------------------------------------------------------
(* Opponents met, stated apart from the code's loops *)

OpponentsOf(log, b) == Get(log[b], "opponent", << >>)

\* the places <<battle, opponent>> where an opponent carries a non-empty tag
Meetings(log) ==
    UNION {{<<b, o>> : o \in {x \in 1..Len(OpponentsOf(log, b)) :
                                 Get(OpponentsOf(log, b)[x], "tag", "") # ""}} :
           b \in 1..Len(log)}

TagAt(log, m) == OpponentsOf(log, m[1])[m[2]].tag

MeetingsWith(log, tag) == {m \in Meetings(log) : TagAt(log, m) = tag}

MetTags(log) == {TagAt(log, m) : m \in Meetings(log)}

WinsAgainst(log, tag) == Cardinality({m \in MeetingsWith(log, tag) : Win(log[m[1]])})

LossesAgainst(log, tag) == Cardinality({m \in MeetingsWith(log, tag) : Lost(log[m[1]])})

DrawsAgainst(log, tag) == Cardinality({m \in MeetingsWith(log, tag) : Drawn(log[m[1]])})

EarlierMeeting(m, n) == m[1] < n[1] \/ (m[1] = n[1] /\ m[2] < n[2])

FirstMeeting(log, tag) ==
    CHOOSE m \in MeetingsWith(log, tag) :
        \A n \in MeetingsWith(log, tag) : n = m \/ EarlierMeeting(m, n)

-----------------------------------------------------------------------------
(* C4 *)

\* C4: every tracked opponent tag satisfies total = wins + losses + draws
\* against that tag (a draw adds to total only), and the record get_nemesis
\* returns has total >= the total of every other tracked tag, the tag inserted
\* first being chosen when several share the highest total.
C4_NemesisTotals ==
    pc = "done" =>
        LET stats == OpponentStats(battle_log)
        IN  /\ {stats[k].tag : k \in 1..Len(stats)} = MetTags(battle_log)
            /\ \A k \in 1..Len(stats) :
                  /\ stats[k].wins = WinsAgainst(battle_log, stats[k].tag)
                  /\ stats[k].losses = LossesAgainst(battle_log, stats[k].tag)
                  /\ stats[k].total = Cardinality(MeetingsWith(battle_log, stats[k].tag))
                  /\ stats[k].total = stats[k].wins + stats[k].losses
                                        + DrawsAgainst(battle_log, stats[k].tag)
            /\ MetTags(battle_log) # {} =>
                  /\ nemesis_data.tag \in MetTags(battle_log)
                  /\ \E k \in 1..Len(stats) : stats[k] = nemesis_data
                  /\ \A k \in 1..Len(stats) :
                        /\ nemesis_data.total >= stats[k].total
                        /\ stats[k].total = nemesis_data.total /\ stats[k].tag # nemesis_data.tag
                           => EarlierMeeting(FirstMeeting(battle_log, nemesis_data.tag),
                                             FirstMeeting(battle_log, stats[k].tag))

\* two tags share the highest total, and the nemesis was met in a draw
C4_Witness ==
    /\ pc = "done"
    /\ nemesis_data.total = 2
    /\ DrawsAgainst(battle_log, nemesis_data.tag) = 1
    /\ \E tag \in MetTags(battle_log) :
          /\ tag # nemesis_data.tag
          /\ Cardinality(MeetingsWith(battle_log, tag)) = 2

-----------------------------------------------------------------------------
(* C9 *)

DominanceMessage(name) == name \o " is your bitch"

InverseMessage(name) == "You are " \o name \o "'s bitch"

EvenMessage(name) == "Evenly matched with " \o name

\* C9: the nemesis message of analyze_player is empty exactly when get_nemesis
\* returned the sentinel (no opponent participant with a non-empty tag);
\* otherwise it is the dominance message when the nemesis's wins > losses, the
\* inverse message when losses > wins and the evenly-matched message when
\* wins = losses, whatever display name the nemesis carries.
C9_NemesisMessage ==
    pc = "done" =>
        LET nemesis == insights.nemesis
        IN  /\ nemesis_data = NemesisSentinel <=> MetTags(battle_log) = {}
            /\ nemesis.message = "" <=> nemesis_data = NemesisSentinel
            /\ nemesis_data # NemesisSentinel =>
                  nemesis.message =
                      IF nemesis.wins > nemesis.losses THEN DominanceMessage(nemesis.name)
                      ELSE IF nemesis.losses > nemesis.wins THEN InverseMessage(nemesis.name)
                      ELSE EvenMessage(nemesis.name)

-----------------------------------------------------------------------------
(* Hours of the day, stated apart from the code's parse *)

\* the timestamps of the model that Python's strptime accepts, with their hour
StampHours ==
    {<<NoonStamp, 12>>, <<LeapNoonStamp, 12>>, <<OneStamp, 13>>, <<ShortStamp, 9>>}

Hours == 0..23

\* the battles counted under hour h
BattlesAt(log, h) ==
    {k \in 1..Len(log) : "battleTime" \in DOMAIN log[k] /\ <<log[k].battleTime, h>> \in StampHours}

BucketTotal(log, h) == Cardinality(BattlesAt(log, h))

BucketWins(log, h) == Cardinality({k \in BattlesAt(log, h) : Win(log[k])})

\* the text each hour is shown as
HourDisplay ==
    <<"0:00 AM", "1:00 AM", "2:00 AM", "3:00 AM", "4:00 AM", "5:00 AM",
      "6:00 AM", "7:00 AM", "8:00 AM", "9:00 AM", "10:00 AM", "11:00 AM",
      "12:00 PM", "1:00 PM", "2:00 PM", "3:00 PM", "4:00 PM", "5:00 PM",
      "6:00 PM", "7:00 PM", "8:00 PM", "9:00 PM", "10:00 PM", "11:00 PM">>

FirstBattleAt(log, h) == CHOOSE k \in BattlesAt(log, h) : \A j \in BattlesAt(log, h) : k <= j

EligibleHours(log) == {h \in Hours : BucketTotal(log, h) >= 3}

-----------------------------------------------------------------------------
(* C5 *)

\* C5: get_peak_performance_hours never returns an hour whose bucket holds
\* fewer than 3 parsed matches: a result that is not the sentinel names an hour
\* with total >= 3; matches whose battleTime is absent or unparseable are counted
\* in no bucket, so a list whose battleTime values are all malformed yields the
\* sentinel.
C5_PeakHourHasThreeBattles ==
    pc = "done" =>
        LET peak  == insights.peak_performance_hours
            stats == HourStats(battle_log)
        IN  /\ peak # PeakSentinel =>
                  \E h \in Hours : peak.hour = HourDisplay[h + 1] /\ BucketTotal(battle_log, h) >= 3
            /\ {stats[k].hour : k \in 1..Len(stats)}
                  = {h \in Hours : BucketTotal(battle_log, h) > 0}
            /\ \A k \in 1..Len(stats) :
                  /\ stats[k].total = BucketTotal(battle_log, stats[k].hour)
                  /\ stats[k].wins = BucketWins(battle_log, stats[k].hour)
            /\ (\A h \in Hours : BucketTotal(battle_log, h) = 0) => peak = PeakSentinel

\* an hour is named while another hour, with fewer than 3 matches, has the
\* better win rate
C5_Witness ==
    /\ pc = "done"
    /\ insights.peak_performance_hours.hour = "12:00 PM"
    /\ BucketTotal(battle_log, 12) = 3
    /\ BucketWins(battle_log, 12) = 1
    /\ BucketTotal(battle_log, 13) = 2
    /\ BucketWins(battle_log, 13) = 2

\* every timestamp of the list is malformed, empty or absent, and the sentinel
\* is returned
C5_WitnessMalformed ==
    /\ pc = "done"
    /\ Len(battle_log) = 3
    /\ \A h \in Hours : BucketTotal(battle_log, h) = 0
    /\ \E k \in 1..3 : Get(battle_log[k], "battleTime", << >>) = NoSuchDayStamp
    /\ insights.peak_performance_hours = PeakSentinel

-----------------------------------------------------------------------------
(* C6 *)

\* C6: get_peak_performance_hours selects the eligible hour (bucket total >= 3)
\* with the highest win rate, the hour seen first winning exact ties, and
\* returns the sentinel {N/A, 0} only if no hour is eligible or the list is
\* empty; whenever at least one hour bucket has total >= 3 the result names an
\* hour.
C6_PeakHourBestRate ==
    pc = "done" =>
        LET peak     == insights.peak_performance_hours
            eligible == EligibleHours(battle_log)
        IN  /\ peak = PeakSentinel => eligible = {}
            /\ eligible # {} =>
                  \E h \in eligible :
                      /\ peak.hour = HourDisplay[h + 1]
                      /\ \A g \in eligible \ {h} :
                            \/ BucketWins(battle_log, h) * BucketTotal(battle_log, g)
                                  > BucketWins(battle_log, g) * BucketTotal(battle_log, h)
                            \/ /\ BucketWins(battle_log, h) * BucketTotal(battle_log, g)
                                     = BucketWins(battle_log, g) * BucketTotal(battle_log, h)
                               /\ FirstBattleAt(battle_log, h) < FirstBattleAt(battle_log, g)

-----------------------------------------------------------------------------
(* C8 *)

\* the archetype of each currentDeck of the model's profiles
DeckLabels ==
    {<<GiantDeck, "Beatdown">>, <<<< >>, "Balanced">>, <<ControlDeck, "Control">>,
     <<SpamDeck, "Bridge Spam">>, <<KnightDeck, "Balanced">>, <<SplitNameDeck, "Balanced">>,
     <<CycleDeck, "Cycle">>, <<MixedDeck, "Beatdown">>}

InsightKeys ==
    {"top_loyal_cards", "longest_win_streak", "comeback_king_percentage", "deck_archetype",
     "rare_gem", "nemesis", "peak_performance_hours", "trophy_roller_coaster",
     "player_name", "player_tag"}

\* C8: for the empty match list and any profile, analyze_player completes and
\* returns the baseline record: longest_win_streak 0, comeback percentage 0.0,
\* the rare gem sentinel, the nemesis sentinel with an empty message, the peak
\* hour sentinel, biggest_gain = biggest_loss = total_swing = 0 with empty
\* recent_changes, top_loyal_cards holding each currentDeck card with count 1
\* (at most 3, empty without a currentDeck), deck_archetype classified from
\* currentDeck (Unknown without one), player_name / player_tag defaulting to
\* "Unknown" / "".
C8_EmptyLogBaseline ==
    pc = "done" /\ battle_log = << >> =>
        /\ DOMAIN insights = InsightKeys
        /\ insights.longest_win_streak = 0
        /\ insights.comeback_king_percentage = 0
        /\ insights.rare_gem = [name |-> NA, win_rate |-> 0, usage |-> 0]
        /\ insights.nemesis = [name |-> "N/A", tag |-> "N/A", wins |-> 0, losses |-> 0,
                               total |-> 0, message |-> ""]
        /\ insights.peak_performance_hours = [hour |-> "N/A", win_rate |-> 0]
        /\ insights.trophy_roller_coaster.biggest_gain = 0
        /\ insights.trophy_roller_coaster.biggest_loss = 0
        /\ insights.trophy_roller_coaster.total_swing = 0
        /\ insights.trophy_roller_coaster.recent_changes = << >>
        /\ IF "currentDeck" \in DOMAIN player_data
           THEN /\ IsTopOfDeck(insights.top_loyal_cards, player_data.currentDeck)
                /\ <<player_data.currentDeck, insights.deck_archetype>> \in DeckLabels
           ELSE /\ insights.top_loyal_cards = << >>
                /\ insights.deck_archetype = "Unknown"
        /\ insights.player_name = (IF "name" \in DOMAIN player_data THEN player_data.name ELSE "Unknown")
        /\ insights.player_tag = (IF "tag" \in DOMAIN player_data THEN player_data.tag ELSE "")

\* the empty list with a currentDeck of more than three names, one of them twice
C8_Witness ==
    /\ pc = "done"
    /\ battle_log = << >>
    /\ "currentDeck" \in DOMAIN player_data
    /\ Cardinality(DeckNames(player_data.currentDeck)) = 4
    /\ Len(player_data.currentDeck) = 7
    /\ Len(insights.top_loyal_cards) = 3

-----------------------------------------------------------------------------
(* C10 *)

\* the deltas of the first min(25, len) battles
WindowDeltas(log) ==
    [k \in 1..Min(25, Len(log)) |-> IF Win(log[k]) THEN 30 ELSE -30]

\* C10: get_trophy_roller_coaster computes one delta per match over the first
\* min(25, len) matches in input order (+30 for WIN, -30 for LOSS or DRAW), and
\* recent_changes is the last min(10, number of deltas) entries of that sequence
\* in scan order, not reversed; matches beyond the 25th affect no field.
C10_TrophyWindow ==
    pc = "done" =>
        LET deltas == WindowDeltas(battle_log)
            n      == Len(deltas)
            m      == Min(10, n)
            rc     == insights.trophy_roller_coaster
        IN  /\ Len(rc.recent_changes) = m
            /\ \A j \in 1..m : rc.recent_changes[j] = deltas[n - m + j]
            /\ rc.biggest_gain = (IF n = 0 THEN 0
                                  ELSE IF \E k \in 1..n : deltas[k] = 30 THEN 30 ELSE -30)
            /\ rc.biggest_loss = (IF n = 0 THEN 0
                                  ELSE IF \E k \in 1..n : deltas[k] = -30 THEN -30 ELSE 30)
            /\ rc.total_swing = (IF n = 0 THEN 0 ELSE 60)
            /\ rc.current = (IF "trophies" \in DOMAIN player_data THEN player_data.trophies ELSE 0)
            /\ rc = get_trophy_roller_coaster(player_data, SubSeq(battle_log, 1, n))

\* 27 battles: the last ten deltas of the window are five wins then five
\* losses, and a win and a draw lie beyond the window
C10_Witness ==
    /\ pc = "done"
    /\ Len(battle_log) = 27
    /\ Win(battle_log[26])
    /\ Drawn(battle_log[27])
    /\ insights.trophy_roller_coaster.recent_changes
          = <<30, 30, 30, 30, 30, -30, -30, -30, -30, -30>>

-----------------------------------------------------------------------------
(* C11 *)

\* the team-side participants <<battle, participant>> of the first ten battles
\* whose card list is not empty
DeckHolders(log) ==
    {h \in UNION {{<<b, p>> : p \in 1..Len(Get(log[b], "team", << >>))} :
                   b \in 1..Min(10, Len(log))} :
        CardsOf(log, h[1], h[2]) # << >>}

\* the lower-cased card names of a holder, in the order played
DeckOf(log, h) == LowerNames(CardsOf(log, h[1], h[2]))

Occurrences(names, x) == Cardinality({k \in 1..Len(names) : names[k] = x})

\* two lists hold the same names as often: they have one signature
SameDeck(a, b) ==
    /\ Len(a) = Len(b)
    /\ \A k \in 1..Len(a) : Occurrences(a, a[k]) = Occurrences(b, a[k])

\* the holders, each with its lower-cased card names in the order played
HeldDecks(log) == {[holder |-> h, deck |-> DeckOf(log, h)] : h \in DeckHolders(log)}

FrequencyAmong(held) ==
    {[holder |-> e.holder, deck |-> e.deck,
      count |-> Cardinality({d \in held : SameDeck(d.deck, e.deck)})] : e \in held}

\* the holders, each with the number of holders that share its signature
Frequency(log) == FrequencyAmong(HeldDecks(log))

HolderBefore(g, h) == g[1] < h[1] \/ (g[1] = h[1] /\ g[2] < h[2])

\* h is the first holder of the most frequent signature, the signature met
\* first among those as frequent
IsRepresentative(freq, e) ==
    \A d \in freq :
        \/ d.count < e.count
        \/ d.count = e.count /\ ~HolderBefore(d.holder, e.holder)

\* the archetype of each signature of the deck logs
SignatureLabels ==
    {<<<<Lower(Giant), Lower(Tesla)>>, "Beatdown">>,
     <<<<Lower(Knight), Lower(Tesla)>>, "Control">>}

\* archetype is Unknown without a holder, and else the label of the
\* representative holder's signature
IsArchetypeOf(archetype, freq) ==
    /\ freq = {} => archetype = "Unknown"
    /\ \A e \in freq :
          IsRepresentative(freq, e) =>
              \E l \in SignatureLabels :
                  /\ SameDeck(l[1], e.deck)
                  /\ archetype = l[2]
    /\ freq # {} => \E e \in freq : IsRepresentative(freq, e)

\* C11: for a non-empty match list, get_deck_archetype depends only on the
\* first 10 matches: the representative deck is the most frequent signature
\* (the lower-cased card names whatever their order) among the team-side
\* participants with a non-empty card list in those matches, the first-seen
\* signature winning ties, and the result is Unknown when no such participant
\* has cards, whatever the profile's currentDeck and the later matches.
C11_DeckWindow ==
    pc = "done" /\ battle_log # << >> =>
        /\ IsArchetypeOf(insights.deck_archetype, Frequency(battle_log))
        /\ insights.deck_archetype
              = get_deck_archetype(EmptyDict, SubSeq(battle_log, 1, Min(10, Len(battle_log))))

\* twelve battles: two giant decks, then none up to the tenth, then two battles
\* of two control decks each, which outnumber the giant decks but lie beyond
\* the window
C11_Witness ==
    /\ pc = "done"
    /\ Len(battle_log) = 12
    /\ battle_log[1] = GiantFirst
    /\ battle_log[2] = GiantFirst
    /\ \A k \in 3..10 : battle_log[k] = NoDeck
    /\ battle_log[11] = ControlDuo
    /\ battle_log[12] = ControlDuo
    /\ "currentDeck" \in DOMAIN player_data
    /\ insights.deck_archetype = "Beatdown"

-----------------------------------------------------------------------------
(* C12 *)

\* the battles of the 25-battle window
TrophyWindowOf(log) == 1..Min(25, Len(log))

\* C12: for every non-empty match list, get_trophy_roller_coaster returns
\* biggest_gain and biggest_loss both in {+30, -30} with biggest_gain >=
\* biggest_loss and total_swing = 60 exactly; biggest_gain is -30 when no match
\* of the 25-match window is a win and biggest_loss is +30 when every match of
\* the window is a win, so biggest_gain >= 0 and biggest_loss <= 0 hold together
\* only when the window holds both a win and a match that is not a win.
C12_SwingOfNonEmptyLog ==
    pc = "done" /\ battle_log # << >> =>
        LET rc      == insights.trophy_roller_coaster
            any_win == \E k \in TrophyWindowOf(battle_log) : Win(battle_log[k])
            any_not == \E k \in TrophyWindowOf(battle_log) : ~Win(battle_log[k])
        IN  /\ rc.biggest_gain \in {30, -30}
            /\ rc.biggest_loss \in {30, -30}
            /\ rc.biggest_gain >= rc.biggest_loss
            /\ rc.total_swing = 60
            /\ ~any_win => rc.biggest_gain = -30
            /\ ~any_not => rc.biggest_loss = 30
            /\ (rc.biggest_gain >= 0 /\ rc.biggest_loss <= 0) <=> (any_win /\ any_not)

\* every battle of the window is a win and a loss lies beyond it: the biggest
\* loss is a gain
C12_Witness ==
    /\ pc = "done"
    /\ Len(battle_log) > 25
    /\ \A k \in 1..25 : Win(battle_log[k])
    /\ Lost(battle_log[26])
    /\ insights.trophy_roller_coaster.biggest_gain = 30
    /\ insights.trophy_roller_coaster.biggest_loss = 30
    /\ insights.trophy_roller_coaster.total_swing = 60

=============================================================================
